---- MODULE Spec2Model ----
(***************************************************************************)
(* State-machine model of the AXIOMHIVE console:                           *)
(*   src/src/services/geminiService.ts  (Remote Synthesis Client)          *)
(*   src/src/App.tsx                    (Interaction Shell)                *)
(*                                                                         *)
(* Conventions.                                                            *)
(*  - A JavaScript string is a sequence of chunks; a chunk is one          *)
(*    character ("a", " ") or one literal of the source taken whole        *)
(*    (<<"ERROR_SIG_INVALID">>).  The empty string is <<>>.                *)
(*  - A JavaScript object is a function from its own property names to     *)
(*    values; a missing property is a name outside DOMAIN.                 *)
(*  - metrics.entropy is kept in thousandths (1.0 is 1000, 0.5 is 500).    *)
(*  - new Date().toISOString() is the value of the local clock.            *)
(*  - React applies all setState calls of one synchronous handler segment  *)
(*    in one render, so one action of the model is one such segment (from  *)
(*    the event, timer or settlement up to the next await or the return).  *)
(*  - Every running invocation of an async handler is an element of a bag, *)
(*    so that two concurrent invocations of one handler are expressible.   *)
(*  - Timers are untimed: a pending timer may fire at any later step.      *)
(*  - The model is the state container and its handlers.  What the render  *)
(*    does with the state (a result without synthesis or metrics makes     *)
(*    the render of the result panel throw) is outside it.                 *)
(*  - handleGenesis is taken as callable in every state, so that its guard *)
(*    is what decides; handleChat and handleFastQuery, whose guards do not *)
(*    test isAuthorized, are invoked from the elements that render them.   *)
(***************************************************************************)
EXTENDS Bags, FiniteSets, Integers, Sequences, TLC

\* ------------------------------------------------------------------ bounds
\* handler invocations (handleGenesis, handleChat, handleFastQuery together,
\* accepted or ignored) explored in one session
MaxSubmits == 3
\* direct calls of generateProtocol explored by SpecClient
MaxClientCalls == 2
\* handler invocations explored in one session of SpecSettling
MaxLiveSubmits == 2

\* ------------------------------------------------------- program constants
\* slice(-19) in addLog: entries of the old log that are kept
LogKeep == 19
\* substring(0, 20) in the GENESIS_INIT / FAST_QUERY log lines
LogPrefixLen == 20

\* ----------------------------------------------------------- JS strings
IsSpace(c) == c \in {" ", "\t", "\n"}

RECURSIVE TrimStart(_)
TrimStart(s) ==
  IF s = <<>> THEN <<>>
  ELSE IF IsSpace(Head(s)) THEN TrimStart(Tail(s)) ELSE s

RECURSIVE TrimEnd(_)
TrimEnd(s) ==
  IF s = <<>> THEN <<>>
  ELSE IF IsSpace(s[Len(s)]) THEN TrimEnd(SubSeq(s, 1, Len(s) - 1)) ELSE s

\* String.prototype.trim
Trim(s) == TrimEnd(TrimStart(s))

\* s.substring(0, n)
Substring0(s, n) == SubSeq(s, 1, IF Len(s) < n THEN Len(s) ELSE n)

\* JS truthiness of a string value (the empty string is falsy)
Truthy(s) == s # <<>>

\* `${n}` for the entropy values that occur (thousandths to decimal text)
NumToStr(n) ==
  CASE n = 1000 -> <<"1">>
    [] n = 500  -> <<"0.5">>
    [] n = 1    -> <<"0.001">>
    [] OTHER    -> <<"NaN">>

\* ------------------------------------------------ Remote Synthesis Client
\* The object with no own properties: {}
EmptyObject == [f \in {} |-> <<>>]

\* metrics of the reply used as example in the specification
ExampleMetrics ==
  [entropy |-> 500, latency |-> <<"10ms">>,
   pruningRate |-> <<"90%">>, valuation |-> <<"$1M">>]

\* Reply texts the remote model can produce (responseMimeType asks for JSON
\* but no schema is enforced, geminiService.ts:53-57)
TextEmpty     == <<>>
TextGarbage   == <<"I cannot help with that.">>
TextNull      == <<"null">>
TextNumber    == <<"7">>
TextFull      == <<"{\"axiom\":\"A\",\"synthesis\":\"B\",\"validation\":\"C\",\"metrics\":{\"entropy\":0.5,\"latency\":\"10ms\",\"pruningRate\":\"90%\",\"valuation\":\"$1M\"},\"signature\":\"SIG-1\"}">>
TextFullTs    == <<"{\"axiom\":\"A\",\"synthesis\":\"B\",\"validation\":\"C\",\"metrics\":{\"entropy\":0.5,\"latency\":\"10ms\",\"pruningRate\":\"90%\",\"valuation\":\"$1M\"},\"timestamp\":0}">>
TextEmptySig  == <<"{\"axiom\":\"A\",\"synthesis\":\"B\",\"validation\":\"C\",\"metrics\":{\"entropy\":0.5,\"latency\":\"10ms\",\"pruningRate\":\"90%\",\"valuation\":\"$1M\"},\"signature\":\"\"}">>
TextNoMetrics == <<"{\"axiom\":\"A\",\"synthesis\":\"B\",\"validation\":\"C\",\"signature\":\"SIG-2\"}">>

ResponseTexts ==
  {TextEmpty, TextGarbage, TextNull, TextNumber,
   TextFull, TextFullTs, TextEmptySig, TextNoMetrics}

\* Outcomes of ai.models.generateContent: a rejection or a response text
\* (response.text undefined is the empty text: both are falsy on line 60)
GenerateResponses ==
  {[kind |-> "raise", text |-> <<>>]} \cup
  {[kind |-> "text", text |-> t] : t \in ResponseTexts}

\* JSON.parse on the texts above: the parsed value, or a SyntaxError.
\* fields are the own enumerable properties the object spread copies.
JSONparse(t) ==
  CASE t = <<"{}">> -> [tag |-> "object", fields |-> EmptyObject]
    [] t = TextNull -> [tag |-> "null", fields |-> EmptyObject]
    [] t = TextNumber -> [tag |-> "number", fields |-> EmptyObject]
    [] t = TextFull ->
         [tag |-> "object",
          fields |-> [axiom |-> <<"A">>, synthesis |-> <<"B">>,
                      validation |-> <<"C">>, metrics |-> ExampleMetrics,
                      signature |-> <<"SIG-1">>]]
    [] t = TextFullTs ->
         [tag |-> "object",
          fields |-> [axiom |-> <<"A">>, synthesis |-> <<"B">>,
                      validation |-> <<"C">>, metrics |-> ExampleMetrics,
                      timestamp |-> 0]]
    [] t = TextEmptySig ->
         [tag |-> "object",
          fields |-> [axiom |-> <<"A">>, synthesis |-> <<"B">>,
                      validation |-> <<"C">>, metrics |-> ExampleMetrics,
                      signature |-> <<>>]]
    [] t = TextNoMetrics ->
         [tag |-> "object",
          fields |-> [axiom |-> <<"A">>, synthesis |-> <<"B">>,
                      validation |-> <<"C">>, signature |-> <<"SIG-2">>]]
    [] OTHER -> [tag |-> "SyntaxError", fields |-> EmptyObject]

\* Math.random().toString(36).substring(2, 10).toUpperCase()
RandomTokens == {<<"K3J9X2QA">>, <<"0ZP41MWD">>}

\* { timestamp: ts, signature: sig, ...data }: the payload's values win
Spread_PayloadLast(data, ts, sig) ==
  [f \in DOMAIN data \cup {"timestamp", "signature"} |->
     IF f \in DOMAIN data THEN data[f]
     ELSE IF f = "timestamp" THEN ts
     ELSE sig]

\* { ...data, timestamp: ts, signature: sig }
Spread(data, ts, sig) ==
  [f \in DOMAIN data \cup {"timestamp", "signature"} |->
     IF f = "timestamp" THEN ts
     ELSE IF f = "signature" THEN sig
     ELSE data[f]]

\* the catch block returning the entropy of a converged run
Sentinel_ZeroEntropy(now) ==
  [axiom |-> <<"ERROR_NULL_STATE">>,
   synthesis |-> <<"System failure in protocol synthesis.">>,
   validation |-> <<"Integrity check failed.">>,
   timestamp |-> now,
   metrics |-> [entropy |-> 0, latency |-> <<"ERR">>,
                pruningRate |-> <<"0%">>, valuation |-> <<"$0">>],
   signature |-> <<"ERROR_SIG_INVALID">>]

\* the object returned by the catch block of generateProtocol
Sentinel(now) ==
  [axiom |-> <<"ERROR_NULL_STATE">>,
   synthesis |-> <<"System failure in protocol synthesis.">>,
   validation |-> <<"Integrity check failed.">>,
   timestamp |-> now,
   metrics |-> [entropy |-> 1000, latency |-> <<"ERR">>,
                pruningRate |-> <<"0%">>, valuation |-> <<"$0">>],
   signature |-> <<"ERROR_SIG_INVALID">>]

\* generateProtocol once generateContent has settled with `response`;
\* now is the clock at completion, tok the token Math.random yields.
generateProtocol(response, now, tok) ==
  IF response.kind = "raise" THEN Sentinel(now)
  ELSE
    LET text == IF Truthy(response.text) THEN response.text ELSE <<"{}">>
        data == JSONparse(text)
    IN  IF data.tag = "SyntaxError" THEN Sentinel(now)
        ELSE IF data.tag = "null" THEN Sentinel(now)
        ELSE
          LET d == data.fields
              sig == IF "signature" \in DOMAIN d /\ Truthy(d["signature"])
                     THEN d["signature"]
                     ELSE <<"AXIOMHIVE-SIG-">> \o tok
          IN  Spread(d, now, sig)

\* Outcomes of chat.sendMessage and of the lite generateContent call:
\* a rejection or a response whose text may be empty/undefined
TextResponses ==
  {[kind |-> "raise", text |-> <<>>],
   [kind |-> "text", text |-> <<>>],
   [kind |-> "text", text |-> <<"o", "k">>]}

\* ------------------------------------------------------ Interaction Shell
VARIABLES
  input, isGenerating, synthesisProgress, synthesisStatus,
  history, currentProtocol, systemLogs, isAuthorized, authStep,
  chatInput, chatMessages, isChatLoading, isChatOpen,
  fastQueryInput, fastQueryResult, isFastQueryLoading,
  \* running invocations and pending timers
  genProcs, resetTimers, authTimers, chatProcs, fastProcs,
  \* the local clock read by new Date()
  clock,
  \* bookkeeping: handler invocations so far, and what generateProtocol
  \* returned (with the response it saw) in order of settlement
  genSubmits, chatSubmits, fastSubmits, genReturns

genVars == <<input, isGenerating, synthesisProgress, synthesisStatus,
             history, currentProtocol>>
authVars == <<isAuthorized, authStep, authTimers>>
chatVars == <<chatInput, chatMessages, isChatLoading, isChatOpen,
              chatProcs, chatSubmits>>
fastVars == <<fastQueryInput, fastQueryResult, isFastQueryLoading,
              fastProcs, fastSubmits>>
genRunVars == <<genProcs, resetTimers, clock, genSubmits, genReturns>>

vars == <<genVars, systemLogs, authVars, chatVars, fastVars, genRunVars>>

\* everything the shell shows or owns (the useState cells)
shellState ==
  <<input, isGenerating, synthesisProgress, synthesisStatus, history,
    currentProtocol, systemLogs, isAuthorized, authStep, chatInput,
    chatMessages, isChatLoading, isChatOpen, fastQueryInput,
    fastQueryResult, isFastQueryLoading>>

\* currentProtocol === null
Null == [null |-> TRUE]

\* texts a user can put into the genesis textarea
Inputs == {<<>>, <<" ">>, <<"a">>}

\* texts a user can type into the chat box and the fast-query box
Queries == {<<"a">>}

\* outcomes of generateContent explored inside a session (SpecClient
\* explores all of GenerateResponses)
SessionResponses ==
  {r \in GenerateResponses :
     r.kind = "raise" \/ r.text \in {TextFull, TextEmpty}}

\* handler invocations so far
Submits == genSubmits + chatSubmits + fastSubmits

\* initial value of systemLogs
InitialLogs ==
  << <<"SYSTEM_INIT: Axiomatic Refractor Online">>,
     <<"READY: Awaiting genesis parameters...">> >>

\* prev.slice(-n)
SliceLast(seq, n) ==
  IF Len(seq) <= n THEN seq ELSE SubSeq(seq, Len(seq) - n + 1, Len(seq))

\* addLog without the slice: the log grows without bound
addLog_NoSlice(prev, msg) == prev \o <<msg>>

\* the updater of addLog applied to the log `prev` (the time prefix of the
\* entry is left out)
addLog(prev, msg) == SliceLast(prev, LogKeep) \o <<msg>>

\* the steps table of handleGenesis
steps ==
  << [p |-> 15, s |-> "AXIOMATIC_GROUNDING",
      l |-> <<"GROUNDING: Establishing core truth parameters...">>],
     [p |-> 35, s |-> "SEMANTIC_QUANTIZATION",
      l |-> <<"QUANTIZING: Deconstructing variables into linear logic...">>],
     [p |-> 55, s |-> "CAUSAL_LATTICE_SYNTHESIS",
      l |-> <<"SYNTHESIZING: Integrating Hyperledger Indy & NetworkX...">>],
     [p |-> 75, s |-> "ML_GRAPH_PRUNING",
      l |-> <<"PRUNING: ML-enhanced anomaly detection active...">>],
     [p |-> 90, s |-> "DETERMINISTIC_VALIDATION",
      l |-> <<"VALIDATING: Verifying cryptographic proofs...">>] >>

\* position of a handleGenesis invocation that awaits generateProtocol
Calling == Len(steps) + 1

One(x) == SetToBag({x})

Init ==
  /\ input = <<>>
  /\ isGenerating = FALSE
  /\ synthesisProgress = 0
  /\ synthesisStatus = ""
  /\ history = <<>>
  /\ currentProtocol = Null
  /\ systemLogs = InitialLogs
  /\ isAuthorized = FALSE
  /\ authStep = "idle"
  /\ chatInput = <<>>
  /\ chatMessages = <<>>
  /\ isChatLoading = FALSE
  /\ isChatOpen = FALSE
  /\ fastQueryInput = <<>>
  /\ fastQueryResult = <<>>
  /\ isFastQueryLoading = FALSE
  /\ genProcs = EmptyBag
  /\ resetTimers = 0
  /\ authTimers = EmptyBag
  /\ chatProcs = EmptyBag
  /\ fastProcs = EmptyBag
  /\ clock = 1
  /\ genSubmits = 0
  /\ chatSubmits = 0
  /\ fastSubmits = 0
  /\ genReturns = <<>>

\* ---------------------------------------------------------- authorization
\* a handleAuth that opens the unlocked view before the timers have run
handleAuth_Unlocks ==
  /\ ~isAuthorized
  /\ authStep = "idle"
  /\ authStep' = "scanning"
  /\ isAuthorized' = TRUE
  /\ systemLogs' = addLog(systemLogs,
        <<"AUTH_SCAN: Initiating biometric/axiomatic verification...">>)
  /\ authTimers' = authTimers (+) One("outer")
  /\ UNCHANGED <<genVars, chatVars, fastVars, genRunVars>>

\* INITIATE ACCESS is rendered in the locked view while authStep is 'idle'
handleAuth ==
  /\ ~isAuthorized
  /\ authStep = "idle"
  /\ authStep' = "scanning"
  /\ systemLogs' = addLog(systemLogs,
        <<"AUTH_SCAN: Initiating biometric/axiomatic verification...">>)
  /\ authTimers' = authTimers (+) One("outer")
  /\ UNCHANGED <<isAuthorized, genVars, chatVars, fastVars, genRunVars>>

\* an outer timer that grants access without the verifying step
AuthScanTimer_SkipsVerify ==
  /\ BagIn("outer", authTimers)
  /\ authStep' = "granted"
  /\ isAuthorized' = TRUE
  /\ systemLogs' = addLog(systemLogs,
        <<"AUTH_SUCCESS: Access granted to AXIOMHIVE Core.">>)
  /\ authTimers' = authTimers (-) One("outer")
  /\ UNCHANGED <<genVars, chatVars, fastVars, genRunVars>>

\* the outer 1500 ms timer of handleAuth
AuthScanTimer ==
  /\ BagIn("outer", authTimers)
  /\ authStep' = "verifying"
  /\ systemLogs' = addLog(systemLogs,
        <<"AUTH_VERIFY: Cross-referencing Sovereign Identity Protocol...">>)
  /\ authTimers' = (authTimers (-) One("outer")) (+) One("inner")
  /\ UNCHANGED <<isAuthorized, genVars, chatVars, fastVars, genRunVars>>

\* the inner 1500 ms timer of handleAuth
AuthVerifyTimer ==
  /\ BagIn("inner", authTimers)
  /\ authStep' = "granted"
  /\ isAuthorized' = TRUE
  /\ systemLogs' = addLog(systemLogs,
        <<"AUTH_SUCCESS: Access granted to AXIOMHIVE Core.">>)
  /\ authTimers' = authTimers (-) One("inner")
  /\ UNCHANGED <<genVars, chatVars, fastVars, genRunVars>>

\* --------------------------------------------------------------- generate
\* the textarea's onChange (unlocked view)
setInput(v) ==
  /\ isAuthorized
  /\ v # input
  /\ input' = v
  /\ UNCHANGED <<isGenerating, synthesisProgress, synthesisStatus, history,
                 currentProtocol, systemLogs, authVars, chatVars, fastVars,
                 genRunVars>>

\* the guard of handleGenesis without its busy test
GenesisIgnored_NoBusy == Trim(input) = <<>> \/ ~isAuthorized

\* the condition of the early return of handleGenesis
GenesisIgnored == Trim(input) = <<>> \/ isGenerating \/ ~isAuthorized

\* handleGenesis from its invocation to its first await (the 600 ms timer
\* of the first stage).  The handler is taken as callable in every state:
\* its own guard decides.
handleGenesis ==
  /\ Submits < MaxSubmits
  /\ genSubmits' = genSubmits + 1
  /\ IF GenesisIgnored
     THEN UNCHANGED <<genVars, systemLogs, genProcs>>
     ELSE /\ isGenerating' = TRUE
          /\ synthesisProgress' = steps[1].p
          /\ synthesisStatus' = steps[1].s
          /\ systemLogs' =
               addLog(addLog(systemLogs,
                        <<"GENESIS_INIT: H(M) -> H0 convergence initiated for \"">>
                        \o Substring0(input, LogPrefixLen) \o <<"...\"">>),
                      steps[1].l)
          /\ genProcs' = genProcs (+) One([pc |-> 1, input |-> input])
          /\ UNCHANGED <<input, history, currentProtocol>>
  /\ UNCHANGED <<authVars, chatVars, fastVars, resetTimers, clock, genReturns>>

\* a 600 ms stage timer fires and the loop enters the next stage
GenesisStage(proc) ==
  /\ BagIn(proc, genProcs)
  /\ proc.pc < Len(steps)
  /\ synthesisProgress' = steps[proc.pc + 1].p
  /\ synthesisStatus' = steps[proc.pc + 1].s
  /\ systemLogs' = addLog(systemLogs, steps[proc.pc + 1].l)
  /\ genProcs' = (genProcs (-) One(proc))
                   (+) One([proc EXCEPT !.pc = proc.pc + 1])
  /\ UNCHANGED <<input, isGenerating, history, currentProtocol, authVars,
                 chatVars, fastVars, resetTimers, clock, genSubmits,
                 genReturns>>

\* the timer of the last stage fires: the loop ends and generateProtocol
\* is called, which issues generateContent
GenesisCall(proc) ==
  /\ BagIn(proc, genProcs)
  /\ proc.pc = Len(steps)
  /\ genProcs' = (genProcs (-) One(proc))
                   (+) One([proc EXCEPT !.pc = Calling])
  /\ UNCHANGED <<genVars, systemLogs, authVars, chatVars, fastVars,
                 resetTimers, clock, genSubmits, genReturns>>

\* the updater of setHistory with the new result put last
prependResult_Append(result, prev) == prev \o <<result>>

\* the updater of setHistory on line 105
prependResult(result, prev) == <<result>> \o prev

\* a finally block that leaves the busy flag set
GenesisFinally_BusyKept ==
  /\ isGenerating' = isGenerating
  /\ resetTimers' = resetTimers + 1

\* the finally block of handleGenesis: busy is cleared at once, the reset of
\* progress and status waits for a 2000 ms timer
GenesisFinally ==
  /\ isGenerating' = FALSE
  /\ resetTimers' = resetTimers + 1

\* generateContent settles with `response`; generateProtocol returns and
\* handleGenesis runs from line 102 to its end (try, catch, finally)
GenesisSettle(proc, response, tok) ==
  /\ BagIn(proc, genProcs)
  /\ proc.pc = Calling
  /\ LET result == generateProtocol(response, clock, tok)
         \* result.metrics.entropy on line 106 raises a TypeError when
         \* result has no metrics
         threw == "metrics" \notin DOMAIN result
     IN  /\ synthesisProgress' = 100
         /\ currentProtocol' = result
         /\ history' = prependResult(result, history)
         /\ IF threw
            THEN /\ systemLogs' = addLog(systemLogs,
                      <<"CRITICAL_ERROR: Synthesis failed. System entropy spike detected.">>)
                 /\ synthesisStatus' = "ERROR"
                 /\ input' = input
            ELSE /\ systemLogs' = addLog(systemLogs,
                      <<"SUCCESS: Protocol synthesized. Entropy: ">>
                      \o NumToStr(result["metrics"].entropy) \o <<" nats.">>)
                 /\ synthesisStatus' = "COMPLETED"
                 /\ input' = <<>>
         /\ genReturns' = Append(genReturns,
                                 [response |-> response, result |-> result])
  /\ GenesisFinally
  /\ clock' = clock + 1
  /\ genProcs' = genProcs (-) One(proc)
  /\ UNCHANGED <<authVars, chatVars, fastVars, genSubmits>>

\* the 2000 ms timer set in the finally block fires
GenesisReset ==
  /\ resetTimers > 0
  /\ resetTimers' = resetTimers - 1
  /\ synthesisProgress' = 0
  /\ synthesisStatus' = ""
  /\ UNCHANGED <<input, isGenerating, history, currentProtocol, systemLogs,
                 authVars, chatVars, fastVars, genProcs, clock, genSubmits,
                 genReturns>>

\* a selection that also empties the genesis textarea
selectHistory_ClearsInput(i) ==
  /\ isAuthorized
  /\ i \in 1..Len(history)
  /\ currentProtocol' = history[i]
  /\ input' = <<>>
  /\ UNCHANGED <<isGenerating, synthesisProgress, synthesisStatus,
                 history, systemLogs, authVars, chatVars, fastVars,
                 genRunVars>>

\* onClick of the i-th item of the history list
selectHistory(i) ==
  /\ isAuthorized
  /\ i \in 1..Len(history)
  /\ currentProtocol' = history[i]
  /\ UNCHANGED <<input, isGenerating, synthesisProgress, synthesisStatus,
                 history, systemLogs, authVars, chatVars, fastVars,
                 genRunVars>>

\* ------------------------------------------------------------------- chat
\* the chatbot toggle button (unlocked view)
toggleChat ==
  /\ isAuthorized
  /\ isChatOpen' = ~isChatOpen
  /\ UNCHANGED <<genVars, systemLogs, authVars, chatInput, chatMessages,
                 isChatLoading, chatProcs, chatSubmits, fastVars, genRunVars>>

\* the close button of the chat window
closeChat ==
  /\ isAuthorized
  /\ isChatOpen
  /\ isChatOpen' = FALSE
  /\ UNCHANGED <<genVars, systemLogs, authVars, chatInput, chatMessages,
                 isChatLoading, chatProcs, chatSubmits, fastVars, genRunVars>>

\* onChange of the chat input (rendered in the open chat window)
setChatInput(v) ==
  /\ isAuthorized
  /\ isChatOpen
  /\ v # chatInput
  /\ chatInput' = v
  /\ UNCHANGED <<genVars, systemLogs, authVars, chatMessages, isChatLoading,
                 isChatOpen, chatProcs, chatSubmits, fastVars, genRunVars>>

\* the guard of handleChat without its busy test
ChatIgnored_NoBusy == Trim(chatInput) = <<>>

\* the condition of the early return of handleChat
ChatIgnored == Trim(chatInput) = <<>> \/ isChatLoading

\* a context that keeps only the last message of the transcript
RemoteHistory_LastOnly(msgs) ==
  [i \in 1..(IF msgs = <<>> THEN 0 ELSE 1) |->
     [role |-> IF msgs[Len(msgs)].role = "user" THEN "user" ELSE "model",
      parts |-> <<[text |-> msgs[Len(msgs)].text]>>]]

\* chatMessages.map(...) on lines 129-132: the roles sent to the remote side
RemoteHistory(msgs) ==
  [i \in 1..Len(msgs) |->
     [role |-> IF msgs[i].role = "user" THEN "user" ELSE "model",
      parts |-> <<[text |-> msgs[i].text]>>]]

\* handleChat from its invocation (Enter key or send button of the open
\* chat window) to its first await (the dynamic import)
handleChat ==
  /\ isAuthorized
  /\ isChatOpen
  /\ Submits < MaxSubmits
  /\ chatSubmits' = chatSubmits + 1
  /\ IF ChatIgnored
     THEN UNCHANGED <<chatInput, chatMessages, isChatLoading, chatProcs>>
     ELSE /\ chatMessages' =
               Append(chatMessages, [role |-> "user", text |-> chatInput])
          /\ chatInput' = <<>>
          /\ isChatLoading' = TRUE
          /\ chatProcs' = chatProcs (+)
               One([pc |-> "import", message |-> chatInput,
                    history |-> RemoteHistory(chatMessages)])
  /\ UNCHANGED <<genVars, systemLogs, authVars, isChatOpen, fastVars,
                 genRunVars>>

\* the dynamic import resolves and chatWithGemini issues chat.sendMessage
ChatCall(proc) ==
  /\ BagIn(proc, chatProcs)
  /\ proc.pc = "import"
  /\ chatProcs' = (chatProcs (-) One(proc))
                    (+) One([proc EXCEPT !.pc = "calling"])
  /\ UNCHANGED <<genVars, systemLogs, authVars, chatInput, chatMessages,
                 isChatLoading, isChatOpen, chatSubmits, fastVars,
                 genRunVars>>

\* a settlement of the chat call that also writes the system log
ChatSettle_Logs(proc, response) ==
  /\ BagIn(proc, chatProcs)
  /\ proc.pc = "calling"
  /\ chatMessages' =
       Append(chatMessages,
              [role |-> "model",
               text |-> IF response.kind = "raise"
                        THEN <<"Error connecting to AXIOMHIVE Core.">>
                        ELSE IF Truthy(response.text) THEN response.text
                        ELSE <<"No response.">>])
  /\ isChatLoading' = FALSE
  /\ systemLogs' = addLog(systemLogs, <<"CHAT: Response received.">>)
  /\ chatProcs' = chatProcs (-) One(proc)
  /\ UNCHANGED <<genVars, authVars, chatInput, isChatOpen,
                 chatSubmits, fastVars, genRunVars>>

\* a settlement that leaves the chat busy flag set
ChatSettle_BusyKept(proc, response) ==
  /\ BagIn(proc, chatProcs)
  /\ proc.pc = "calling"
  /\ chatMessages' =
       Append(chatMessages,
              [role |-> "model",
               text |-> IF response.kind = "raise"
                        THEN <<"Error connecting to AXIOMHIVE Core.">>
                        ELSE IF Truthy(response.text) THEN response.text
                        ELSE <<"No response.">>])
  /\ isChatLoading' = isChatLoading
  /\ chatProcs' = chatProcs (-) One(proc)
  /\ UNCHANGED <<genVars, systemLogs, authVars, chatInput, isChatOpen,
                 chatSubmits, fastVars, genRunVars>>

\* chat.sendMessage settles: lines 136-141
ChatSettle(proc, response) ==
  /\ BagIn(proc, chatProcs)
  /\ proc.pc = "calling"
  /\ chatMessages' =
       Append(chatMessages,
              [role |-> "model",
               text |-> IF response.kind = "raise"
                        THEN <<"Error connecting to AXIOMHIVE Core.">>
                        ELSE IF Truthy(response.text) THEN response.text
                        ELSE <<"No response.">>])
  /\ isChatLoading' = FALSE
  /\ chatProcs' = chatProcs (-) One(proc)
  /\ UNCHANGED <<genVars, systemLogs, authVars, chatInput, isChatOpen,
                 chatSubmits, fastVars, genRunVars>>

\* ------------------------------------------------------------- fast query
\* onChange of the fast-query input (unlocked view)
setFastQueryInput(v) ==
  /\ isAuthorized
  /\ v # fastQueryInput
  /\ fastQueryInput' = v
  /\ UNCHANGED <<genVars, systemLogs, authVars, chatVars, fastQueryResult,
                 isFastQueryLoading, fastProcs, fastSubmits, genRunVars>>

\* the guard of handleFastQuery without its busy test
FastIgnored_NoBusy == Trim(fastQueryInput) = <<>>

\* a guard of handleFastQuery that also waits for a running generate
FastIgnored_SharedLock ==
  Trim(fastQueryInput) = <<>> \/ isFastQueryLoading \/ isGenerating

\* the condition of the early return of handleFastQuery
FastIgnored == Trim(fastQueryInput) = <<>> \/ isFastQueryLoading

\* handleFastQuery from its invocation (Enter key or button, unlocked view)
\* to its await of fastAIResponse, which issues generateContent
handleFastQuery ==
  /\ isAuthorized
  /\ Submits < MaxSubmits
  /\ fastSubmits' = fastSubmits + 1
  /\ IF FastIgnored
     THEN UNCHANGED <<fastQueryResult, isFastQueryLoading, fastProcs,
                      systemLogs>>
     ELSE /\ isFastQueryLoading' = TRUE
          /\ fastQueryResult' = <<"CONSULTING_LITE_CORE...">>
          /\ systemLogs' = addLog(systemLogs,
               <<"FAST_QUERY: \"">>
               \o Substring0(fastQueryInput, LogPrefixLen) \o <<"...\"">>)
          /\ fastProcs' = fastProcs (+) One([prompt |-> fastQueryInput])
  /\ UNCHANGED <<genVars, authVars, chatVars, fastQueryInput, genRunVars>>

\* a settlement that clears the fast-query busy flag on success only
FastSettle_BusyOnError(proc, response) ==
  /\ BagIn(proc, fastProcs)
  /\ IF response.kind = "raise"
     THEN /\ fastQueryResult' = <<"Error connecting to Lite Core.">>
          /\ isFastQueryLoading' = isFastQueryLoading
          /\ UNCHANGED systemLogs
     ELSE /\ fastQueryResult' = IF Truthy(response.text) THEN response.text
                                ELSE <<"No response.">>
          /\ isFastQueryLoading' = FALSE
          /\ systemLogs' = addLog(systemLogs,
                                  <<"FAST_QUERY: Response received.">>)
  /\ fastProcs' = fastProcs (-) One(proc)
  /\ UNCHANGED <<genVars, authVars, chatVars, fastQueryInput, fastSubmits,
                 genRunVars>>

\* the lite generateContent call settles: lines 153-159
FastSettle(proc, response) ==
  /\ BagIn(proc, fastProcs)
  /\ IF response.kind = "raise"
     THEN /\ fastQueryResult' = <<"Error connecting to Lite Core.">>
          /\ UNCHANGED systemLogs
     ELSE /\ fastQueryResult' = IF Truthy(response.text) THEN response.text
                                ELSE <<"No response.">>
          /\ systemLogs' = addLog(systemLogs,
                                  <<"FAST_QUERY: Response received.">>)
  /\ isFastQueryLoading' = FALSE
  /\ fastProcs' = fastProcs (-) One(proc)
  /\ UNCHANGED <<genVars, authVars, chatVars, fastQueryInput, fastSubmits,
                 genRunVars>>

\* ---------------------------------------------------------- specification
Next ==
  \/ handleAuth
  \/ AuthScanTimer
  \/ AuthVerifyTimer
  \/ \E v \in Inputs : setInput(v)
  \/ handleGenesis
  \/ \E proc \in BagToSet(genProcs) : GenesisStage(proc)
  \/ \E proc \in BagToSet(genProcs) : GenesisCall(proc)
  \/ \E proc \in BagToSet(genProcs), response \in SessionResponses,
        tok \in RandomTokens : GenesisSettle(proc, response, tok)
  \/ GenesisReset
  \/ \E i \in 1..Len(history) : selectHistory(i)
  \/ toggleChat
  \/ closeChat
  \/ \E v \in Queries : setChatInput(v)
  \/ handleChat
  \/ \E proc \in BagToSet(chatProcs) : ChatCall(proc)
  \/ \E proc \in BagToSet(chatProcs), response \in TextResponses :
        ChatSettle(proc, response)
  \/ \E v \in Queries : setFastQueryInput(v)
  \/ handleFastQuery
  \/ \E proc \in BagToSet(fastProcs), response \in TextResponses :
        FastSettle(proc, response)

Spec == Init /\ [][Next]_vars

\* the browser runs every timer that is due: the two timers of handleAuth
\* fire once set
TimersFire == WF_vars(AuthScanTimer) /\ WF_vars(AuthVerifyTimer)

SpecTimers == Spec /\ TimersFire

\* the 600 ms stage timers fire and the dynamic import of handleChat
\* resolves
StagesRun ==
  /\ WF_vars(\E proc \in BagToSet(genProcs) : GenesisStage(proc))
  /\ WF_vars(\E proc \in BagToSet(genProcs) : GenesisCall(proc))
  /\ WF_vars(\E proc \in BagToSet(chatProcs) : ChatCall(proc))

\* every remote call that was issued settles (resolves or rejects)
CallsSettle ==
  /\ WF_vars(\E proc \in BagToSet(genProcs), response \in SessionResponses,
                tok \in RandomTokens : GenesisSettle(proc, response, tok))
  /\ WF_vars(\E proc \in BagToSet(chatProcs), response \in TextResponses :
                ChatSettle(proc, response))
  /\ WF_vars(\E proc \in BagToSet(fastProcs), response \in TextResponses :
                FastSettle(proc, response))

\* the steps of a session of at most MaxLiveSubmits handler invocations
NextSettling == Next /\ Submits' <= MaxLiveSubmits

\* the sessions in which no remote call stays unsettled for ever
SpecSettling ==
  Init /\ [][NextSettling]_vars /\ TimersFire /\ StagesRun /\ CallsSettle

\* ------------------------------------------- the client called on its own
\* generateProtocol called directly and settled with `response`
requestProtocol(response, tok) ==
  /\ Len(genReturns) < MaxClientCalls
  /\ genReturns' = Append(genReturns,
        [response |-> response,
         result |-> generateProtocol(response, clock, tok)])
  /\ clock' = clock + 1
  /\ UNCHANGED <<genVars, systemLogs, authVars, chatVars, fastVars,
                 genProcs, resetTimers, genSubmits>>

NextClient ==
  \E response \in GenerateResponses, tok \in RandomTokens :
     requestProtocol(response, tok)

SpecClient == Init /\ [][NextClient]_vars

\* ================================================================ claims
\* helpers of the claims, stated without the operators of the model
InputBlank == \A i \in DOMAIN input : input[i] \in {" ", "\t", "\n"}

LogCapacity == LogKeep + 1

\* the last n entries of seq
LastN(seq, n) ==
  [i \in 1..n |-> seq[Len(seq) - n + i]]

\* C1: a handleGenesis invocation made while the input is empty or
\* whitespace-only, or while a generate is in flight, or before
\* authorization has completed, starts no run (so no generateProtocol call)
\* and leaves the whole shell state, the pending timers, the running
\* invocations and the clock unchanged.
C1_IgnoredGenesisChangesNothing ==
  [][ (genSubmits' = genSubmits + 1
       /\ (InputBlank \/ isGenerating \/ ~isAuthorized))
      => /\ shellState' = shellState
         /\ genProcs' = genProcs
         /\ genReturns' = genReturns
         /\ <<resetTimers, authTimers, chatProcs, fastProcs, clock>>'
              = <<resetTimers, authTimers, chatProcs, fastProcs, clock>>
    ]_vars

\* C1 witness: a second handleGenesis was invoked while the first one was
\* awaiting its remote call, and only one run exists
C1_Witness ==
  /\ genSubmits = 2
  /\ isGenerating
  /\ BagCardinality(genProcs) = 1
  /\ \E proc \in BagToSet(genProcs) : proc.pc = Calling
  /\ history = <<>>

\* C2: at most one invocation of each kind is between its guard and the
\* settlement of its call, so at most one remote call of each kind is
\* outstanding; the busy flag of a kind is set exactly while one is.
C2_OneCallPerKind ==
  /\ BagCardinality(genProcs) <= 1
  /\ BagCardinality(chatProcs) <= 1
  /\ BagCardinality(fastProcs) <= 1
  /\ isGenerating <=> (genProcs # EmptyBag)
  /\ isChatLoading <=> (chatProcs # EmptyBag)
  /\ isFastQueryLoading <=> (fastProcs # EmptyBag)

\* C2 witness: a fast query was submitted twice while its call was
\* outstanding, and a generate call is outstanding too
C2_Witness ==
  /\ fastSubmits = 2
  /\ BagCardinality(fastProcs) = 1
  /\ \E proc \in BagToSet(genProcs) : proc.pc = Calling

\* C3: History holds exactly the results of the settled generate calls,
\* most recent first: entry 1 is the result of the last call that settled
\* and the last entry the result of the first; since only a settlement
\* extends the record of returned results, no other action alters History.
C3_HistoryMostRecentFirst ==
  /\ Len(history) = Len(genReturns)
  /\ \A i \in 1..Len(history) :
       history[i] = genReturns[Len(genReturns) - i + 1].result

\* C3 witness: three calls have settled and the user has selected the
\* oldest entry
C3_Witness ==
  /\ Len(history) = 3
  /\ currentProtocol = history[3]
  /\ history[1] # history[3]

\* C4: the log never holds more than 20 entries, and every step that logs
\* (two entries when handleGenesis is accepted, one otherwise) keeps the
\* most recent old entries in their order, drops only the oldest ones that
\* no longer fit, and puts the new entries last.
C4_LogCapped ==
  /\ Len(systemLogs) <= LogCapacity
  /\ [][ /\ Len(systemLogs') <= LogCapacity
         /\ systemLogs' # systemLogs =>
              LET k == IF genSubmits' # genSubmits THEN 2 ELSE 1
                  n == Len(systemLogs)
                  m == IF n + k <= LogCapacity THEN n + k ELSE LogCapacity
              IN  /\ Len(systemLogs') = m
                  /\ SubSeq(systemLogs', 1, m - k) = LastN(systemLogs, m - k)
     ]_vars

\* C4 witness: the log is full and its two initial entries have been evicted
C4_Witness ==
  /\ Len(systemLogs) = LogCapacity
  /\ \A i \in 1..Len(systemLogs) :
       systemLogs[i] \notin {InitialLogs[1], InitialLogs[2]}

\* the six properties of a SynthesisResult
ResultFields ==
  {"axiom", "synthesis", "validation", "metrics", "timestamp", "signature"}

MetricsFields == {"entropy", "latency", "pruningRate", "valuation"}

\* r is the fixed sentinel on every field but timestamp
IsFixedSentinel(r) ==
  /\ DOMAIN r = ResultFields
  /\ r["axiom"] = <<"ERROR_NULL_STATE">>
  /\ r["synthesis"] = <<"System failure in protocol synthesis.">>
  /\ r["validation"] = <<"Integrity check failed.">>
  /\ DOMAIN r["metrics"] = MetricsFields
  /\ r["metrics"]["entropy"] = 1000
  /\ r["metrics"]["latency"] = <<"ERR">>
  /\ r["metrics"]["pruningRate"] = <<"0%">>
  /\ r["metrics"]["valuation"] = <<"$0">>
  /\ r["signature"] = <<"ERROR_SIG_INVALID">>

\* r has every property of a SynthesisResult
IsTotal(r) ==
  /\ ResultFields \subseteq DOMAIN r
  /\ MetricsFields \subseteq DOMAIN r["metrics"]

\* the response texts that are JSON objects of the required shape
\* (signature is optional in a payload)
ShapedTexts == {TextFull, TextFullTs, TextEmptySig}

\* C5: when generateContent rejects, or resolves with a text that is not
\* JSON, generateProtocol returns the fixed sentinel, the same on every
\* field but timestamp, which is the local time of completion.
C5_SentinelOnRaiseOrUnparsable ==
  \A i \in 1..Len(genReturns) :
    LET e == genReturns[i]
    IN  (e.response.kind = "raise" \/ e.response.text = TextGarbage)
        => /\ IsFixedSentinel(e.result)
           /\ e.result["timestamp"] = i

\* C5 witness: a call that rejected and a call that returned text that is
\* not JSON have both returned
C5_Witness ==
  /\ Len(genReturns) = 2
  /\ genReturns[1].response.kind = "raise"
  /\ genReturns[2].response.text = TextGarbage
  /\ genSubmits = 0

\* C6: every response that is not a JSON object of the required shape
\* (a rejection, text that is not JSON, an empty response text, JSON null,
\* a JSON number, an object without metrics) yields the fixed sentinel.
C6_SentinelOnEveryFailure ==
  \A i \in 1..Len(genReturns) :
    LET e == genReturns[i]
    IN  (e.response.kind = "raise" \/ e.response.text \notin ShapedTexts)
        => IsFixedSentinel(e.result)

\* C7: every entry of History, and the current result when it is not null,
\* has all of axiom, synthesis, validation, metrics (with its four fields),
\* timestamp and signature.
C7_ResultsTotal ==
  /\ \A i \in 1..Len(history) : IsTotal(history[i])
  /\ currentProtocol # Null => IsTotal(currentProtocol)

\* C8 as stated: for a response that is a JSON object of the required
\* shape, the result's timestamp is the local time of completion, its
\* signature is the payload's signature whenever the payload has one
\* (whatever string it is), and every other property of the payload is
\* passed through unchanged.
C8_SignatureAlwaysKept ==
  \A i \in 1..Len(genReturns) :
    LET e == genReturns[i]
        d == JSONparse(e.response.text).fields
    IN  (e.response.kind = "text" /\ e.response.text \in ShapedTexts)
        => /\ e.result["timestamp"] = i
           /\ "signature" \in DOMAIN d => e.result["signature"] = d["signature"]
           /\ DOMAIN e.result = DOMAIN d \cup {"timestamp", "signature"}
           /\ \A f \in DOMAIN d \ {"timestamp", "signature"} :
                e.result[f] = d[f]

\* C8 amended: for a response that is a JSON object of the required shape,
\* the result's timestamp is the local time of completion (a timestamp of
\* the payload is overwritten), its signature is the payload's signature
\* whenever the payload has a non-empty one, a missing or empty signature
\* is replaced by "AXIOMHIVE-SIG-" and a random token, and every other
\* property of the payload is passed through unchanged.
C8_PayloadPassedThrough ==
  \A i \in 1..Len(genReturns) :
    LET e == genReturns[i]
        d == JSONparse(e.response.text).fields
    IN  (e.response.kind = "text" /\ e.response.text \in ShapedTexts)
        => /\ e.result["timestamp"] = i
           /\ IF "signature" \in DOMAIN d /\ d["signature"] # <<>>
              THEN e.result["signature"] = d["signature"]
              ELSE \E tok \in RandomTokens :
                     e.result["signature"] = <<"AXIOMHIVE-SIG-", tok[1]>>
           /\ DOMAIN e.result = DOMAIN d \cup {"timestamp", "signature"}
           /\ \A f \in DOMAIN d \ {"timestamp", "signature"} :
                e.result[f] = d[f]

\* C8 witness: a payload with the signature SIG-1 and a payload with its own
\* timestamp and no signature have both been returned
C8_Witness ==
  /\ Len(genReturns) = 2
  /\ genReturns[1].response.text = TextFull
  /\ genReturns[1].result["signature"] = <<"SIG-1">>
  /\ genReturns[2].response.text = TextFullTs
  /\ genReturns[2].result["timestamp"] = 2

\* position of the running handleGenesis invocation: 0 when there is none,
\* 1..5 while a stage timer is pending, 6 while the remote call is out
GenesisPc ==
  IF genProcs = EmptyBag THEN 0
  ELSE (CHOOSE proc \in BagToSet(genProcs) : TRUE).pc

StageProgress == <<15, 35, 55, 75, 90>>

\* the order of an accepted generate up to the issue of the remote call
GenesisOrderStep ==
  /\ (GenesisPc = 0 /\ GenesisPc' # 0) =>
        GenesisPc' = 1 /\ isGenerating' /\ synthesisProgress' = StageProgress[1]
  /\ (GenesisPc \in 1..4 /\ GenesisPc' # GenesisPc) =>
        /\ GenesisPc' = GenesisPc + 1
        /\ isGenerating'
        /\ synthesisProgress' = StageProgress[GenesisPc']
  /\ (GenesisPc = 5 /\ GenesisPc' # GenesisPc) => GenesisPc' = 6 /\ isGenerating'
  /\ (GenesisPc # 6 /\ GenesisPc' = 6) => GenesisPc = 5
  /\ (GenesisPc = 6 /\ GenesisPc' # GenesisPc) => GenesisPc' = 0

\* what a settlement does by the time busy is cleared
GenesisSettleStep ==
  (isGenerating /\ ~isGenerating') =>
     /\ GenesisPc = 6
     /\ Len(history') = Len(history) + 1
     /\ SubSeq(history', 2, Len(history')) = history
     /\ currentProtocol' = history'[1]
     /\ input' = <<>>

\* C9: an accepted generate sets busy, plays the stages 15, 35, 55, 75, 90
\* in that order, issues the remote call only after the last stage, and on
\* every settlement prepends the result to History, makes it current and
\* clears the input by the time busy is cleared.
C9_GenerateOrder == [][GenesisOrderStep /\ GenesisSettleStep]_vars

\* C10 as stated: when the result is written to History the busy flag stays
\* set (it is cleared only later, after a delay).
C10_BusyHeldAfterHistoryWrite ==
  [][history' # history => isGenerating']_vars

\* C10 amended: the step that writes the result to History clears the busy
\* flag at once; what waits for the delay is the reset of progress and
\* status, which only the 2000 ms timer performs: progress stays 100 until
\* that timer fires or a new generate, accepted at once, restarts it.
C10_BusyClearedWithHistoryWrite ==
  [][ /\ history' # history =>
           /\ ~isGenerating'
           /\ resetTimers' = resetTimers + 1
           /\ synthesisProgress' = 100
      /\ (synthesisProgress = 100 /\ synthesisProgress' # 100) =>
           \/ resetTimers' = resetTimers - 1 /\ synthesisProgress' = 0
           \/ ~isGenerating /\ isGenerating'
    ]_vars

\* C10 witness: a new generate has been accepted while the reset timer of
\* the settled one is still pending
C10_Witness ==
  /\ Len(history) = 1
  /\ isGenerating
  /\ resetTimers = 1
  /\ genSubmits = 2

\* the outcome "the remote call was rejected"
Rejected == [kind |-> "raise", text |-> <<>>]

\* C11: when the chat call is rejected, exactly one model message
\* "Error connecting to AXIOMHIVE Core." is appended to the transcript, the
\* chat busy flag is cleared, no call of any kind is issued, and nothing of
\* generate, fast query, authorization or the log changes; when the
\* fast-query call is rejected, the result becomes "Error connecting to Lite
\* Core.", its busy flag is cleared, no call is issued, and nothing of
\* generate, chat, authorization or the log changes.
C11_FailureFallback ==
  [][ /\ (\E proc \in BagToSet(chatProcs) : ChatSettle(proc, Rejected)) =>
           /\ chatMessages' = chatMessages \o
                << [role |-> "model",
                    text |-> <<"Error connecting to AXIOMHIVE Core.">>] >>
           /\ ~isChatLoading'
           /\ BagCardinality(chatProcs') = BagCardinality(chatProcs) - 1
           /\ <<chatInput, isChatOpen>>' = <<chatInput, isChatOpen>>
           /\ <<genVars, fastVars, genRunVars, authVars, systemLogs>>'
                = <<genVars, fastVars, genRunVars, authVars, systemLogs>>
      /\ (\E proc \in BagToSet(fastProcs) : FastSettle(proc, Rejected)) =>
           /\ fastQueryResult' = <<"Error connecting to Lite Core.">>
           /\ ~isFastQueryLoading'
           /\ BagCardinality(fastProcs') = BagCardinality(fastProcs) - 1
           /\ fastQueryInput' = fastQueryInput
           /\ <<genVars, chatVars, genRunVars, authVars, systemLogs>>'
                = <<genVars, chatVars, genRunVars, authVars, systemLogs>>
    ]_vars

\* C11 witness: a chat call and a fast-query call have both been rejected
\* and neither kind is busy
C11_Witness ==
  /\ Len(chatMessages) = 2
  /\ chatMessages[2] =
       [role |-> "model", text |-> <<"Error connecting to AXIOMHIVE Core.">>]
  /\ fastQueryResult = <<"Error connecting to Lite Core.">>
  /\ ~isChatLoading
  /\ ~isFastQueryLoading
  /\ chatProcs = EmptyBag
  /\ fastProcs = EmptyBag

\* the texts of the three input boxes are blank
ChatBlank == \A i \in DOMAIN chatInput : chatInput[i] \in {" ", "\t", "\n"}

FastBlank ==
  \A i \in DOMAIN fastQueryInput : fastQueryInput[i] \in {" ", "\t", "\n"}

\* C12: an invocation of a handler is accepted whenever its own input is
\* not blank and its own kind is not busy (and, for generate, authorization
\* has completed), whatever the busy flags of the two other kinds are.
C12_KindsIndependent ==
  [][ /\ (genSubmits' = genSubmits + 1
          /\ ~InputBlank /\ ~isGenerating /\ isAuthorized) =>
           isGenerating' /\ BagCardinality(genProcs') = 1
      /\ (chatSubmits' = chatSubmits + 1
          /\ ~ChatBlank /\ ~isChatLoading) =>
           isChatLoading' /\ BagCardinality(chatProcs') = 1
      /\ (fastSubmits' = fastSubmits + 1
          /\ ~FastBlank /\ ~isFastQueryLoading) =>
           isFastQueryLoading' /\ BagCardinality(fastProcs') = 1
    ]_vars

\* C12 witness: a generate call, a chat call and a fast-query call are
\* outstanding at the same time
C12_Witness ==
  /\ \E proc \in BagToSet(genProcs) : proc.pc = Calling
  /\ \E proc \in BagToSet(chatProcs) : proc.pc = "calling"
  /\ fastProcs # EmptyBag
  /\ isGenerating /\ isChatLoading /\ isFastQueryLoading

\* the useState cells of each kind
genState == <<input, isGenerating, synthesisProgress, synthesisStatus,
              history, currentProtocol>>
chatState == <<chatInput, chatMessages, isChatLoading, isChatOpen>>
fastState == <<fastQueryInput, fastQueryResult, isFastQueryLoading>>

\* a step of the flow of a kind: an invocation of its handler, a step of a
\* running invocation, or (generate) its reset timer
GenStep ==
  genSubmits' # genSubmits \/ genProcs' # genProcs
    \/ resetTimers' # resetTimers
ChatStep == chatSubmits' # chatSubmits \/ chatProcs' # chatProcs
FastStep == fastSubmits' # fastSubmits \/ fastProcs' # fastProcs

\* the first chunk of the log entries each flow writes
GenLogHeads ==
  {"GENESIS_INIT: H(M) -> H0 convergence initiated for \"",
   "GROUNDING: Establishing core truth parameters...",
   "QUANTIZING: Deconstructing variables into linear logic...",
   "SYNTHESIZING: Integrating Hyperledger Indy & NetworkX...",
   "PRUNING: ML-enhanced anomaly detection active...",
   "VALIDATING: Verifying cryptographic proofs...",
   "SUCCESS: Protocol synthesized. Entropy: ",
   "CRITICAL_ERROR: Synthesis failed. System entropy spike detected."}
FastLogHeads == {"FAST_QUERY: \"", "FAST_QUERY: Response received."}

\* a step of one kind leaves the cells of the two other kinds alone
KindsFrame ==
  /\ GenStep => <<chatState, fastState>>' = <<chatState, fastState>>
  /\ ChatStep => <<genState, fastState>>' = <<genState, fastState>>
  /\ FastStep => <<genState, chatState>>' = <<genState, chatState>>

\* C13 as stated: no state variable is written by the flows of two kinds:
\* a step of one kind leaves the cells of the other kinds alone, and the
\* system log never holds an entry written by the generate flow together
\* with an entry written by the fast-query flow.
C13_DisjointWrites ==
  /\ [][KindsFrame]_vars
  /\ [](~ \E i, j \in DOMAIN systemLogs :
            /\ systemLogs[i][1] \in GenLogHeads
            /\ systemLogs[j][1] \in FastLogHeads)

\* C13 amended: a step of one kind leaves the cells of the other kinds
\* alone, and the chat flow never writes the system log; the system log is
\* the one variable shared by two kinds: the generate flow and the
\* fast-query flow both write it, each write putting one entry of its own
\* kind last (an accepted generate puts two), so the order of the log
\* entries, and nothing else, follows the interleaving.
C13_DisjointExceptLog ==
  [][ /\ KindsFrame
      /\ ChatStep => systemLogs' = systemLogs
      /\ (GenStep /\ systemLogs' # systemLogs) =>
           systemLogs'[Len(systemLogs')][1] \in GenLogHeads
      /\ (FastStep /\ systemLogs' # systemLogs) =>
           systemLogs'[Len(systemLogs')][1] \in FastLogHeads
    ]_vars

\* C13 witness: while a generate is running and a chat call is outstanding,
\* the log holds an entry of the fast-query flow between two entries of the
\* generate flow
C13_Witness ==
  /\ isGenerating
  /\ isChatLoading
  /\ \E i, j, k \in DOMAIN systemLogs :
       /\ i < j /\ j < k
       /\ systemLogs[i][1] \in GenLogHeads
       /\ systemLogs[j][1] \in FastLogHeads
       /\ systemLogs[k][1] \in GenLogHeads

\* the only changes of authStep, and what comes with each
AuthOrderStep ==
  /\ authStep' # authStep =>
       \/ authStep = "idle" /\ authStep' = "scanning"
       \/ authStep = "scanning" /\ authStep' = "verifying"
       \/ authStep = "verifying" /\ authStep' = "granted"
  /\ isAuthorized' # isAuthorized =>
       ~isAuthorized /\ authStep = "verifying" /\ authStep' = "granted"
  /\ authStep' = "granted" => isAuthorized'

\* C14: authStep only moves idle -> scanning -> verifying -> granted, one
\* step at a time and never back, the unlocked view opens with the step to
\* granted, and once handleAuth has run (authStep is scanning) the unlocked
\* view is eventually reached: nothing can make the sequence fail.
C14_AuthSequence ==
  /\ [][AuthOrderStep]_vars
  /\ (authStep = "scanning") ~> isAuthorized

\* C14 witness: the sequence has run to its end and its three log entries
\* follow the two initial ones
C14_Witness ==
  /\ authStep = "granted"
  /\ isAuthorized
  /\ authTimers = EmptyBag
  /\ Len(systemLogs) = 5
  /\ systemLogs[3] =
       <<"AUTH_SCAN: Initiating biometric/axiomatic verification...">>
  /\ systemLogs[4] =
       <<"AUTH_VERIFY: Cross-referencing Sovereign Identity Protocol...">>
  /\ systemLogs[5] = <<"AUTH_SUCCESS: Access granted to AXIOMHIVE Core.">>

\* the context `h` is the transcript `msgs`, message by message
IsContextOf(h, msgs) ==
  /\ Len(h) = Len(msgs)
  /\ \A i \in 1..Len(msgs) :
       /\ h[i].role = msgs[i].role
       /\ h[i].parts = << [text |-> msgs[i].text] >>

\* C15: an accepted chat turn starts one invocation whose message is the
\* utterance and whose context is the transcript as it was before the
\* utterance was appended; until its call settles, the transcript is that
\* context followed by the utterance, so the call is issued with every
\* earlier message (fallback messages included) in order, with its role,
\* and without the utterance itself.
C15_ChatContext ==
  /\ [][ (chatSubmits' = chatSubmits + 1 /\ ~ChatBlank /\ ~isChatLoading)
         => \E proc \in BagToSet(chatProcs') :
              /\ proc.message = chatInput
              /\ IsContextOf(proc.history, chatMessages)
              /\ chatMessages' =
                   chatMessages \o <<[role |-> "user", text |-> chatInput]>>
     ]_vars
  /\ [](\A proc \in BagToSet(chatProcs) :
          /\ chatMessages # <<>>
          /\ chatMessages[Len(chatMessages)] =
               [role |-> "user", text |-> proc.message]
          /\ IsContextOf(proc.history,
                         SubSeq(chatMessages, 1, Len(chatMessages) - 1)))

\* C15 witness: the call of a second chat turn is outstanding, and its
\* context is the first utterance followed by the fallback message of the
\* first turn, whose call was rejected
C15_Witness ==
  \E proc \in BagToSet(chatProcs) :
    /\ proc.pc = "calling"
    /\ Len(proc.history) = 2
    /\ proc.history[1] = [role |-> "user", parts |-> <<[text |-> <<"a">>]>>]
    /\ proc.history[2] =
         [role |-> "model",
          parts |-> <<[text |-> <<"Error connecting to AXIOMHIVE Core.">>]>>]
    /\ proc.message = <<"a">>

\* C16: the current result is null exactly while History is empty and is
\* otherwise an entry of History; a step that extends History (a generate
\* call settling) makes the new first entry current, whatever was current
\* before; any other change of the current result is a selection: the new
\* current result is an entry of History and nothing else changes.
C16_CurrentResult ==
  /\ [](/\ (currentProtocol = Null) <=> (history = <<>>)
        /\ history # <<>> =>
             \E i \in 1..Len(history) : currentProtocol = history[i])
  /\ [][ /\ history' # history => currentProtocol' = history'[1]
         /\ (currentProtocol' # currentProtocol /\ history' = history) =>
              /\ \E i \in 1..Len(history) : currentProtocol' = history[i]
              /\ <<input, isGenerating, synthesisProgress, synthesisStatus,
                   systemLogs, authVars, chatVars, fastVars, genRunVars>>'
                 = <<input, isGenerating, synthesisProgress, synthesisStatus,
                     systemLogs, authVars, chatVars, fastVars, genRunVars>>
     ]_vars

\* C16 witness: a third generate call is outstanding with its input still
\* in the textarea while the user has the older of two results selected
C16_Witness ==
  /\ Len(history) = 2
  /\ history[1] # history[2]
  /\ currentProtocol = history[2]
  /\ input # <<>>
  /\ \E proc \in BagToSet(genProcs) : proc.pc = Calling

\* C17: while a generate is busy, no step lowers the progress or blanks the
\* status, and the status is never blank: the reset to 0 / '' happens only
\* when no generate is running.
C17_ProgressMonotoneWhileBusy ==
  /\ [](isGenerating => synthesisStatus # "")
  /\ [][ (isGenerating /\ isGenerating') =>
           /\ synthesisProgress' >= synthesisProgress
           /\ synthesisStatus' # ""
     ]_vars

\* the step ends an invocation of the kind (its remote call has settled)
GenEnds == BagCardinality(genProcs') < BagCardinality(genProcs)
ChatEnds == BagCardinality(chatProcs') < BagCardinality(chatProcs)
FastEnds == BagCardinality(fastProcs') < BagCardinality(fastProcs)

\* C18: the step in which an invocation ends, whatever its call settled
\* with, clears the busy flag of its kind, and no other step clears a busy
\* flag; given that every issued call settles, a busy kind is eventually
\* not busy again (so that a later submission of the kind is accepted).
C18_BusyCleared ==
  /\ [][ /\ GenEnds => ~isGenerating'
         /\ ChatEnds => ~isChatLoading'
         /\ FastEnds => ~isFastQueryLoading'
         /\ (isGenerating /\ ~isGenerating') => GenEnds
         /\ (isChatLoading /\ ~isChatLoading') => ChatEnds
         /\ (isFastQueryLoading /\ ~isFastQueryLoading') => FastEnds
     ]_vars
  /\ isGenerating ~> ~isGenerating
  /\ isChatLoading ~> ~isChatLoading
  /\ isFastQueryLoading ~> ~isFastQueryLoading

\* C18 witness: the first generate ended on the error path of handleGenesis
\* (the catch block ran), and a second generate has been accepted and has
\* issued its call
C18_Witness ==
  /\ Len(genReturns) = 1
  /\ "metrics" \notin DOMAIN genReturns[1].result
  /\ genSubmits = 2
  /\ isGenerating
  /\ \E proc \in BagToSet(genProcs) : proc.pc = Calling
  /\ synthesisStatus = "DETERMINISTIC_VALIDATION"

\* the role of the i-th message of an alternating transcript
RoleAt(i) == IF i % 2 = 1 THEN "user" ELSE "model"

\* C19: the roles of the transcript alternate, starting with 'user'; its
\* length is even exactly while chat is not busy; an accepted chat turn
\* appends the one user message, clears the chat input and sets busy before
\* any call is issued; the end of an invocation appends the one model message:
\* the reply, 'No response.' or the error fallback.
C19_TranscriptAlternates ==
  /\ [](/\ \A i \in 1..Len(chatMessages) : chatMessages[i].role = RoleAt(i)
        /\ isChatLoading <=> (Len(chatMessages) % 2 = 1))
  /\ [][ /\ (chatSubmits' = chatSubmits + 1 /\ ~ChatBlank /\ ~isChatLoading)
            => /\ chatMessages' =
                    chatMessages \o <<[role |-> "user", text |-> chatInput]>>
               /\ chatInput' = <<>>
               /\ isChatLoading'
               /\ \A proc \in BagToSet(chatProcs') : proc.pc = "import"
         /\ ChatEnds
            => /\ Len(chatMessages') = Len(chatMessages) + 1
               /\ SubSeq(chatMessages', 1, Len(chatMessages)) = chatMessages
               /\ chatMessages'[Len(chatMessages')].role = "model"
               /\ chatMessages'[Len(chatMessages')].text \in
                    {<<"o", "k">>, <<"No response.">>,
                     <<"Error connecting to AXIOMHIVE Core.">>}
         /\ chatMessages' # chatMessages => chatSubmits' # chatSubmits \/ ChatEnds
     ]_vars

\* C19 witness: the first turn was answered with an empty reply, and the
\* second turn is busy, its user message last
C19_Witness ==
  /\ Len(chatMessages) = 3
  /\ chatMessages[2] = [role |-> "model", text |-> <<"No response.">>]
  /\ chatMessages[3].role = "user"
  /\ isChatLoading
  /\ chatInput = <<>>

\* C20: isAuthorized is true exactly when authStep is 'granted' and never
\* reverts to false; while it is false no handler invocation is running, no
\* call has returned, handleChat and handleFastQuery have never been
\* invoked, and History, the transcript and the fast-query result are
\* empty.
C20_NothingBeforeAuthorization ==
  /\ [](/\ isAuthorized <=> (authStep = "granted")
        /\ ~isAuthorized =>
             /\ genProcs = EmptyBag /\ chatProcs = EmptyBag
             /\ fastProcs = EmptyBag
             /\ genReturns = <<>>
             /\ chatSubmits = 0 /\ fastSubmits = 0
             /\ history = <<>> /\ currentProtocol = Null
             /\ chatMessages = <<>>
             /\ fastQueryResult = <<>>
             /\ ~isGenerating /\ ~isChatLoading /\ ~isFastQueryLoading)
  /\ [][isAuthorized => isAuthorized']_vars

\* C20 witness: handleGenesis was invoked three times during the
\* authorization sequence and nothing was started
C20_Witness ==
  /\ genSubmits = 3
  /\ ~isAuthorized
  /\ authStep = "verifying"
  /\ genProcs = EmptyBag
  /\ history = <<>>
====
